---- MODULE Spec2Model ----
(***************************************************************************)
(* File Integrity Monitor (FIM.py): the record store (tables file_hashes   *)
(* and alerts), the hasher, the baseline walk, and the watchdog callbacks  *)
(* of FileEventHandler, over a small monitored directory whose files are   *)
(* changed by the environment.                                             *)
(***************************************************************************)
EXTENDS Integers, Sequences, FiniteSets, TLC

(* ------------------------------ bounds --------------------------------- *)

\* Events dispatched to the FileEventHandler in one behaviour.
MaxEvents == 1

\* File names of the monitored directory.
Paths == {"a.txt", "b.txt"}

\* File contents the environment writes.
Contents == {"hello", "hello world"}

\* st_mtime readings, as isoformat() renders them.
Mtimes == {"2024-01-01T10:00:00", "2024-01-02T10:00:00"}

\* Last three octal digits of st_mode; a file of mode 000 cannot be opened.
Modes == {"644", "000"}

(* --------------------------- Python values ----------------------------- *)

\* Python's None; also SQL NULL as sqlite3 hands it back.
None == "None"

\* hashlib.sha256(...).hexdigest(): distinct contents have distinct digests.
sha256(content) == "sha256(" \o content \o ")"

Digests == {sha256(c) : c \in Contents}

\* A file of the directory, as os.stat and open see it.
Files == [content : Contents, mtime : Mtimes, mode : Modes]

\* A row of table file_hashes (its key, file_path, is the function argument).
Rows == [hash : Digests \cup {None}, last_modified : Mtimes, permissions : Modes]

VARIABLES
    fs,           \* the monitored directory: existing path -> file
    file_hashes,  \* table file_hashes: file_path (PRIMARY KEY) -> row
    alerts,       \* table alerts, in rowid (insertion) order
    pc,           \* where main is: "start", "baseline", "watching", or how
                  \* it ended: "refused", "aborted", "exited", "killed"
    event,        \* the last event dispatched, and what its handler did
    nEvents,      \* events dispatched so far
    report,       \* the rows get_all_alerts returned to main, << >> before
    handling      \* the locals of a _handle_file_event call between its writes

vars == <<fs, file_hashes, alerts, pc, event, nEvents, report, handling>>

(* ----------------------------- Database -------------------------------- *)

\* INSERT OR IGNORE in place of INSERT OR REPLACE: an existing row is kept.
store_file_hash_ignore(table, file_path, file_hash, last_modified, permissions) ==
    [p \in DOMAIN table \cup {file_path} |->
        IF p \in DOMAIN table
        THEN table[p]
        ELSE [hash |-> file_hash, last_modified |-> last_modified,
              permissions |-> permissions]]

\* UPDATE ... SET hash in place of the replace: an existing row keeps its
\* last_modified and permissions.
store_file_hash_hash_only(table, file_path, file_hash, last_modified, permissions) ==
    [p \in DOMAIN table \cup {file_path} |->
        IF p = file_path
        THEN IF p \in DOMAIN table
             THEN [table[p] EXCEPT !.hash = file_hash]
             ELSE [hash |-> file_hash, last_modified |-> last_modified,
                   permissions |-> permissions]
        ELSE table[p]]

\* Database.store_file_hash: INSERT OR REPLACE keyed on file_path.
store_file_hash(table, file_path, file_hash, last_modified, permissions) ==
    [p \in DOMAIN table \cup {file_path} |->
        IF p = file_path
        THEN [hash |-> file_hash, last_modified |-> last_modified,
              permissions |-> permissions]
        ELSE table[p]]

\* Database.get_file_hash: result[0] if result else None.
get_file_hash(table, file_path) ==
    IF file_path \in DOMAIN table THEN table[file_path].hash ELSE None

\* The INSERT executed twice.
log_alert_twice(table, timestamp, file_path, event_type, details) ==
    table \o << [timestamp |-> timestamp, file_path |-> file_path,
                 event_type |-> event_type, details |-> details],
                [timestamp |-> timestamp, file_path |-> file_path,
                 event_type |-> event_type, details |-> details] >>

\* Table alerts keyed on file_path and written with INSERT OR REPLACE: the
\* alert replaces the earlier alert of the same path.
log_alert_replace(table, timestamp, file_path, event_type, details) ==
    Append(SelectSeq(table, LAMBDA a : a.file_path # file_path),
           [timestamp |-> timestamp, file_path |-> file_path,
            event_type |-> event_type, details |-> details])

\* Database.log_alert: INSERT INTO alerts, timestamp = datetime.now().
log_alert(table, timestamp, file_path, event_type, details) ==
    Append(table, [timestamp |-> timestamp, file_path |-> file_path,
                   event_type |-> event_type, details |-> details])

\* ORDER BY timestamp, rowid DESC: of two rows of equal timestamp the later
\* one is returned first.
RECURSIVE order_by_timestamp_newest_first(_)
order_by_timestamp_newest_first(table) ==
    IF table = << >>
    THEN << >>
    ELSE LET row    == table[Len(table)]
             sorted == order_by_timestamp_newest_first(
                           SubSeq(table, 1, Len(table) - 1))
             k      == Cardinality({i \in DOMAIN sorted :
                                        sorted[i].timestamp < row.timestamp})
         IN  SubSeq(sorted, 1, k) \o <<row>> \o SubSeq(sorted, k + 1, Len(sorted))

\* ORDER BY timestamp over the rows in rowid order. isoformat() strings of
\* one clock compare as the instants do; they are numbered here. SQLite's
\* sorter keeps rows of equal key in the order it was fed them.
RECURSIVE order_by_timestamp(_)
order_by_timestamp(table) ==
    IF table = << >>
    THEN << >>
    ELSE LET row    == table[Len(table)]
             sorted == order_by_timestamp(SubSeq(table, 1, Len(table) - 1))
             k      == Cardinality({i \in DOMAIN sorted :
                                        sorted[i].timestamp <= row.timestamp})
         IN  SubSeq(sorted, 1, k) \o <<row>> \o SubSeq(sorted, k + 1, Len(sorted))

\* The SELECT without its ORDER BY: the rows in rowid order.
get_all_alerts_unordered(table) == table

\* Database.get_all_alerts: SELECT ... FROM alerts ORDER BY timestamp.
get_all_alerts(table) == order_by_timestamp(table)

(* ---------------------------- FileMonitor ------------------------------ *)

\* open(file_path, "rb") succeeds.
Readable(dir, file_path) ==
    file_path \in DOMAIN dir /\ dir[file_path].mode # "000"

\* FileMonitor.calculate_file_hash: the digest, or None on any exception.
calculate_file_hash(dir, file_path) ==
    IF Readable(dir, file_path) THEN sha256(dir[file_path].content) ELSE None

\* The directory without file_path.
Without(dir, file_path) == [p \in DOMAIN dir \ {file_path} |-> dir[p]]

(* ------------------------- FileEventHandler ---------------------------- *)

\* f"Hash changed: {old_hash} -> {new_hash}"; str(None) is "None".
HashChanged(old_hash, new_hash) ==
    "Hash changed: " \o old_hash \o " -> " \o new_hash

\* f"Renamed from: {src_path}"
RenamedFrom(src_path) == "Renamed from: " \o src_path

\* The comparison dropped: every CREATED or MODIFIED event counts as a change.
Differs_always(old_hash, new_hash) == TRUE

\* The comparison of line 222.
Differs(old_hash, new_hash) == old_hash # new_hash

\* No _handle_file_event call is between its two writes.
Idle == [file_path |-> "", event_type |-> "", new_hash |-> None]

NoEvent ==
    [kind |-> "NONE", src_path |-> "", dest_path |-> "", is_directory |-> FALSE,
     had_row |-> FALSE, alerted |-> FALSE, stored |-> FALSE, raised |-> FALSE]

\* The directories the environment can have built before main is launched.
Directories == UNION {[S -> Files] : S \in SUBSET Paths}

\* Database.__init__ opens file_hashes.db and creates the tables only IF NOT
\* EXISTS: a launch starts on the rows that earlier launches left. These are
\* the tables left by launches that ended before any event was dispatched:
\* rows written by establish_baseline for files it could hash.
BaselineRows == {r \in Rows : r.hash # None /\ r.permissions # "000"}
BaselineTables == UNION {[S -> BaselineRows] : S \in SUBSET Paths}

Init ==
    /\ fs \in Directories
    /\ file_hashes \in BaselineTables
    /\ alerts = << >>
    /\ pc = "start"
    /\ event = NoEvent
    /\ nEvents = 0
    /\ report = << >>
    /\ handling = Idle

(* ------------------------------- main ---------------------------------- *)

\* os.walk(self.path_to_monitor): the listed files, in directory order.
WalkOrders(dir) ==
    {order \in [1..Cardinality(DOMAIN dir) -> DOMAIN dir] :
        \A i, j \in DOMAIN order : i # j => order[i] # order[j]}

\* The loop without its `if file_hash:`: a row is stored for every listed
\* file, with a NULL hash when the hash failed.
RECURSIVE baseline_walk_unfiltered(_, _, _, _, _)
baseline_walk_unfiltered(order, dir, table, gone, lost) ==
    IF order = << >>
    THEN [table |-> table, raised |-> FALSE]
    ELSE LET file_path == Head(order)
             file_hash == IF file_path \in gone THEN None
                          ELSE calculate_file_hash(dir, file_path)
         IN  IF file_path = lost
             THEN [table |-> table, raised |-> TRUE]
             ELSE baseline_walk_unfiltered(Tail(order), dir,
                      store_file_hash(table, file_path, file_hash,
                          dir[file_path].mtime, dir[file_path].mode),
                      gone, lost)

\* The loop of establish_baseline over the listed files. A file of `gone` was
\* removed after it was listed and before it is opened; the file `lost` is
\* removed between calculate_file_hash and os.stat, where os.stat raises.
RECURSIVE baseline_walk(_, _, _, _, _)
baseline_walk(order, dir, table, gone, lost) ==
    IF order = << >>
    THEN [table |-> table, raised |-> FALSE]
    ELSE LET file_path == Head(order)
             file_hash == IF file_path \in gone THEN None
                          ELSE calculate_file_hash(dir, file_path)
         IN  IF file_hash # None
             THEN IF file_path = lost
                  THEN [table |-> table, raised |-> TRUE]
                  ELSE baseline_walk(Tail(order), dir,
                           store_file_hash(table, file_path, file_hash,
                               dir[file_path].mtime, dir[file_path].mode),
                           gone, lost)
             ELSE baseline_walk(Tail(order), dir, table, gone, lost)

\* The refusal is recorded in table alerts before main returns.
MainStart_logged ==
    /\ pc = "start"
    /\ \E exists \in BOOLEAN :
          /\ pc' = IF exists THEN "baseline" ELSE "refused"
          /\ alerts' = IF exists THEN alerts
                       ELSE log_alert(alerts, 0, "", "ERROR",
                                      "Directory does not exist!")
    /\ UNCHANGED <<fs, file_hashes, event, nEvents, report, handling>>

\* main, lines 419-424: the path typed by the operator is checked; if it does
\* not exist main returns, else the FileMonitor (and its Database, on the
\* existing file_hashes.db) is built.
MainStart ==
    /\ pc = "start"
    /\ \E exists \in BOOLEAN :
          pc' = IF exists THEN "baseline" ELSE "refused"
    /\ UNCHANGED <<fs, file_hashes, alerts, event, nEvents, report, handling>>

\* DELETE FROM file_hashes before the walk: the baseline starts from an empty
\* table.
establish_baseline_fresh ==
    /\ pc = "baseline"
    /\ \E order \in WalkOrders(fs), gone \in SUBSET DOMAIN fs,
          lost \in (DOMAIN fs \cup {""}) :
          /\ lost \notin gone
          /\ lost # "" => Readable(fs, lost)
          /\ LET walk == baseline_walk(order, fs, [p \in {} |-> None], gone, lost)
             IN  /\ file_hashes' = walk.table
                 /\ pc' = IF walk.raised THEN "aborted" ELSE "watching"
                 /\ fs' = [p \in DOMAIN fs \ (gone \cup {lost}) |-> fs[p]]
    /\ UNCHANGED <<alerts, event, nEvents, report, handling>>

\* FileMonitor.establish_baseline, then observer.start(); an exception of the
\* walk is caught by main's except and main ends.
establish_baseline ==
    /\ pc = "baseline"
    /\ \E order \in WalkOrders(fs), gone \in SUBSET DOMAIN fs,
          lost \in (DOMAIN fs \cup {""}) :
          /\ lost \notin gone
          /\ lost # "" => Readable(fs, lost)
          /\ LET walk == baseline_walk(order, fs, file_hashes, gone, lost)
             IN  /\ file_hashes' = walk.table
                 /\ pc' = IF walk.raised THEN "aborted" ELSE "watching"
                 /\ fs' = [p \in DOMAIN fs \ (gone \cup {lost}) |-> fs[p]]
    /\ UNCHANGED <<alerts, event, nEvents, report, handling>>

\* main, lines 437-452: 'q' is pressed, the observer is stopped and joined,
\* and the alerts are read for the summary and the export.
MainQuit ==
    /\ pc = "watching"
    /\ handling = Idle
    /\ pc' = "exited"
    /\ report' = get_all_alerts(alerts)
    /\ UNCHANGED <<fs, file_hashes, alerts, event, nEvents, handling>>

(* ------------------------- event callbacks ----------------------------- *)

\* FileEventHandler._handle_file_event for CREATED and MODIFIED. `vanishes`:
\* the file is removed between calculate_file_hash and os.stat.
handle_changed(file_path, event_type, timestamp, vanishes) ==
    LET new_hash == calculate_file_hash(fs, file_path)
        old_hash == get_file_hash(file_hashes, file_path)
        dir      == IF vanishes THEN Without(fs, file_path) ELSE fs
        seen     == [kind |-> event_type, src_path |-> file_path,
                     dest_path |-> "", is_directory |-> FALSE,
                     had_row |-> file_path \in DOMAIN file_hashes]
    IN  IF Differs(old_hash, new_hash)
        THEN /\ alerts' = log_alert(alerts, timestamp, file_path, event_type,
                                    HashChanged(old_hash, new_hash))
             /\ fs' = dir
             /\ IF file_path \in DOMAIN dir
                THEN /\ file_hashes' = store_file_hash(file_hashes, file_path,
                            new_hash, dir[file_path].mtime, dir[file_path].mode)
                     /\ event' = seen @@ [alerted |-> TRUE, stored |-> TRUE,
                                          raised |-> FALSE]
                ELSE /\ file_hashes' = file_hashes
                     /\ event' = seen @@ [alerted |-> TRUE, stored |-> FALSE,
                                          raised |-> TRUE]
        ELSE /\ ~vanishes
             /\ event' = seen @@ [alerted |-> FALSE, stored |-> FALSE,
                                  raised |-> FALSE]
             /\ UNCHANGED <<fs, file_hashes, alerts>>

\* The row of the deleted file is dropped with the alert.
handle_deleted_prune(file_path, timestamp) ==
    /\ alerts' = log_alert(alerts, timestamp, file_path, "DELETED", "File deleted")
    /\ event' = [kind |-> "DELETED", src_path |-> file_path, dest_path |-> "",
                 is_directory |-> FALSE,
                 had_row |-> file_path \in DOMAIN file_hashes,
                 alerted |-> TRUE, stored |-> FALSE, raised |-> FALSE]
    /\ file_hashes' = Without(file_hashes, file_path)
    /\ UNCHANGED fs

\* The row of the deleted file is kept as a tombstone: its hash is set to
\* NULL with the alert.
handle_deleted_tombstone(file_path, timestamp) ==
    /\ alerts' = log_alert(alerts, timestamp, file_path, "DELETED", "File deleted")
    /\ event' = [kind |-> "DELETED", src_path |-> file_path, dest_path |-> "",
                 is_directory |-> FALSE,
                 had_row |-> file_path \in DOMAIN file_hashes,
                 alerted |-> TRUE, stored |-> FALSE, raised |-> FALSE]
    /\ file_hashes' = [p \in DOMAIN file_hashes |->
                          IF p = file_path
                          THEN [file_hashes[p] EXCEPT !.hash = None]
                          ELSE file_hashes[p]]
    /\ UNCHANGED fs

\* FileEventHandler._handle_file_event for DELETED (the else branch).
handle_deleted(file_path, timestamp) ==
    /\ alerts' = log_alert(alerts, timestamp, file_path, "DELETED", "File deleted")
    /\ event' = [kind |-> "DELETED", src_path |-> file_path, dest_path |-> "",
                 is_directory |-> FALSE,
                 had_row |-> file_path \in DOMAIN file_hashes,
                 alerted |-> TRUE, stored |-> FALSE, raised |-> FALSE]
    /\ UNCHANGED <<fs, file_hashes>>

\* FileEventHandler._handle_file_event.
handle_file_event(file_path, event_type, timestamp, vanishes) ==
    IF event_type # "DELETED"
    THEN handle_changed(file_path, event_type, timestamp, vanishes)
    ELSE ~vanishes /\ handle_deleted(file_path, timestamp)

\* The alert filed under the source path, naming the destination.
handle_rename_event_swapped(src_path, dest_path, timestamp, vanishes) ==
    LET new_hash == calculate_file_hash(fs, dest_path)
        dir      == IF vanishes THEN Without(fs, dest_path) ELSE fs
        seen     == [kind |-> "RENAMED", src_path |-> src_path,
                     dest_path |-> dest_path, is_directory |-> FALSE,
                     had_row |-> dest_path \in DOMAIN file_hashes,
                     alerted |-> TRUE]
    IN  /\ alerts' = log_alert(alerts, timestamp, src_path, "RENAMED",
                               RenamedFrom(dest_path))
        /\ fs' = dir
        /\ IF dest_path \in DOMAIN fs
           THEN IF dest_path \in DOMAIN dir
                THEN /\ file_hashes' = store_file_hash(file_hashes, dest_path,
                            new_hash, dir[dest_path].mtime, dir[dest_path].mode)
                     /\ event' = seen @@ [stored |-> TRUE, raised |-> FALSE]
                ELSE /\ file_hashes' = file_hashes
                     /\ event' = seen @@ [stored |-> FALSE, raised |-> TRUE]
           ELSE /\ ~vanishes
                /\ file_hashes' = file_hashes
                /\ event' = seen @@ [stored |-> FALSE, raised |-> FALSE]

\* The row keyed on the source path is removed when the destination is stored.
handle_rename_event_moves(src_path, dest_path, timestamp, vanishes) ==
    LET new_hash == calculate_file_hash(fs, dest_path)
        dir      == IF vanishes THEN Without(fs, dest_path) ELSE fs
        seen     == [kind |-> "RENAMED", src_path |-> src_path,
                     dest_path |-> dest_path, is_directory |-> FALSE,
                     had_row |-> dest_path \in DOMAIN file_hashes,
                     alerted |-> TRUE]
    IN  /\ alerts' = log_alert(alerts, timestamp, dest_path, "RENAMED",
                               RenamedFrom(src_path))
        /\ fs' = dir
        /\ IF dest_path \in DOMAIN fs
           THEN IF dest_path \in DOMAIN dir
                THEN /\ file_hashes' = store_file_hash(Without(file_hashes, src_path), dest_path,
                            new_hash, dir[dest_path].mtime, dir[dest_path].mode)
                     /\ event' = seen @@ [stored |-> TRUE, raised |-> FALSE]
                ELSE /\ file_hashes' = file_hashes
                     /\ event' = seen @@ [stored |-> FALSE, raised |-> TRUE]
           ELSE /\ ~vanishes
                /\ file_hashes' = file_hashes
                /\ event' = seen @@ [stored |-> FALSE, raised |-> FALSE]

\* The store guarded by `if new_hash:` as in establish_baseline: a
\* destination that cannot be hashed keeps the row it had.
handle_rename_event_guarded(src_path, dest_path, timestamp, vanishes) ==
    LET new_hash == calculate_file_hash(fs, dest_path)
        dir      == IF vanishes THEN Without(fs, dest_path) ELSE fs
        seen     == [kind |-> "RENAMED", src_path |-> src_path,
                     dest_path |-> dest_path, is_directory |-> FALSE,
                     had_row |-> dest_path \in DOMAIN file_hashes,
                     alerted |-> TRUE]
    IN  /\ alerts' = log_alert(alerts, timestamp, dest_path, "RENAMED",
                               RenamedFrom(src_path))
        /\ fs' = dir
        /\ IF dest_path \in DOMAIN fs /\ new_hash # None
           THEN IF dest_path \in DOMAIN dir
                THEN /\ file_hashes' = store_file_hash(file_hashes, dest_path,
                            new_hash, dir[dest_path].mtime, dir[dest_path].mode)
                     /\ event' = seen @@ [stored |-> TRUE, raised |-> FALSE]
                ELSE /\ file_hashes' = file_hashes
                     /\ event' = seen @@ [stored |-> FALSE, raised |-> TRUE]
           ELSE /\ ~vanishes
                /\ file_hashes' = file_hashes
                /\ event' = seen @@ [stored |-> FALSE, raised |-> FALSE]

\* FileEventHandler._handle_rename_event. `vanishes`: dest_path is removed
\* after os.path.exists answered and before os.stat.
handle_rename_event(src_path, dest_path, timestamp, vanishes) ==
    LET new_hash == calculate_file_hash(fs, dest_path)
        dir      == IF vanishes THEN Without(fs, dest_path) ELSE fs
        seen     == [kind |-> "RENAMED", src_path |-> src_path,
                     dest_path |-> dest_path, is_directory |-> FALSE,
                     had_row |-> dest_path \in DOMAIN file_hashes,
                     alerted |-> TRUE]
    IN  /\ alerts' = log_alert(alerts, timestamp, dest_path, "RENAMED",
                               RenamedFrom(src_path))
        /\ fs' = dir
        /\ IF dest_path \in DOMAIN fs
           THEN IF dest_path \in DOMAIN dir
                THEN /\ file_hashes' = store_file_hash(file_hashes, dest_path,
                            new_hash, dir[dest_path].mtime, dir[dest_path].mode)
                     /\ event' = seen @@ [stored |-> TRUE, raised |-> FALSE]
                ELSE /\ file_hashes' = file_hashes
                     /\ event' = seen @@ [stored |-> FALSE, raised |-> TRUE]
           ELSE /\ ~vanishes
                /\ file_hashes' = file_hashes
                /\ event' = seen @@ [stored |-> FALSE, raised |-> FALSE]

\* The filter on event.is_directory left out: the event of a directory is
\* logged like the event of a file.
dropped_logged(kind, src_path, dest_path) ==
    /\ event' = [NoEvent EXCEPT !.kind = kind, !.src_path = src_path,
                                !.dest_path = dest_path, !.is_directory = TRUE]
    /\ alerts' = log_alert(alerts, nEvents + 1,
                           IF kind = "RENAMED" THEN dest_path ELSE src_path,
                           kind, "File deleted")
    /\ UNCHANGED <<fs, file_hashes>>

\* An event flagged is_directory: every callback returns at once.
dropped(kind, src_path, dest_path) ==
    /\ event' = [NoEvent EXCEPT !.kind = kind, !.src_path = src_path,
                                !.dest_path = dest_path, !.is_directory = TRUE]
    /\ UNCHANGED <<fs, file_hashes, alerts>>

\* datetime.now() in log_alert: the wall clock, taken to advance from one
\* dispatch to the next.
now == nEvents + 1

\* observer.start() moved before establish_baseline(): events are dispatched
\* while the baseline is still to be walked.
Dispatching_early ==
    /\ pc \in {"baseline", "watching"}
    /\ nEvents < MaxEvents
    /\ nEvents' = nEvents + 1
    /\ UNCHANGED <<pc, report, handling>>

\* The observer thread hands one event to its callback. An exception that
\* leaves the callback is recorded in event.raised; the dispatches after it
\* are explored as well.
Dispatching ==
    /\ pc = "watching"
    /\ nEvents < MaxEvents
    /\ nEvents' = nEvents + 1
    /\ UNCHANGED <<pc, report, handling>>

on_modified ==
    /\ Dispatching
    /\ \E src_path \in Paths, is_directory \in BOOLEAN, vanishes \in BOOLEAN :
          /\ vanishes => src_path \in DOMAIN fs
          /\ IF ~is_directory
             THEN handle_file_event(src_path, "MODIFIED", now, vanishes)
             ELSE ~vanishes /\ dropped("MODIFIED", src_path, "")

on_created ==
    /\ Dispatching
    /\ \E src_path \in Paths, is_directory \in BOOLEAN, vanishes \in BOOLEAN :
          /\ vanishes => src_path \in DOMAIN fs
          /\ IF ~is_directory
             THEN handle_file_event(src_path, "CREATED", now, vanishes)
             ELSE ~vanishes /\ dropped("CREATED", src_path, "")

on_deleted ==
    /\ Dispatching
    /\ \E src_path \in Paths, is_directory \in BOOLEAN :
          IF ~is_directory
          THEN handle_file_event(src_path, "DELETED", now, FALSE)
          ELSE dropped("DELETED", src_path, "")

on_moved ==
    /\ Dispatching
    /\ \E src_path \in Paths, dest_path \in Paths, is_directory \in BOOLEAN,
          vanishes \in BOOLEAN :
          /\ src_path # dest_path
          /\ vanishes => dest_path \in DOMAIN fs
          /\ IF ~is_directory
             THEN handle_rename_event(src_path, dest_path, now, vanishes)
             ELSE ~vanishes /\ dropped("RENAMED", src_path, dest_path)

(* --------------------------- environment ------------------------------- *)

\* The directory changes while the observer runs; changes made before that
\* are in Init's directory. Changes are followed while an event can still be
\* dispatched.
Changing == pc = "watching" /\ nEvents < MaxEvents

\* FIMTester.create_random_file / modify_random_file: a file is written (its
\* mode is kept, a new file gets 644); writing the same content again only
\* moves its mtime.
WriteFile ==
    /\ Changing
    /\ \E p \in Paths, c \in Contents, t \in Mtimes :
        /\ fs' = [q \in DOMAIN fs \cup {p} |->
                    IF q = p
                    THEN [content |-> c, mtime |-> t,
                          mode |-> IF p \in DOMAIN fs THEN fs[p].mode ELSE "644"]
                    ELSE fs[q]]
        /\ UNCHANGED <<file_hashes, alerts, pc, event, nEvents, report, handling>>

\* FIMTester.delete_random_file.
RemoveFile ==
    /\ Changing
    /\ \E p \in DOMAIN fs :
        /\ fs' = Without(fs, p)
        /\ UNCHANGED <<file_hashes, alerts, pc, event, nEvents, report, handling>>

\* FIMTester.rename_random_file: os.rename(source_file, new_path).
RenameFile ==
    /\ Changing
    /\ \E p \in DOMAIN fs, q \in Paths :
        /\ q # p
        /\ fs' = [r \in (DOMAIN fs \ {p}) \cup {q} |->
                    IF r = q THEN fs[p] ELSE fs[r]]
        /\ UNCHANGED <<file_hashes, alerts, pc, event, nEvents, report, handling>>

\* The permission bits of a file change; with 000 open() raises and
\* calculate_file_hash answers None.
Chmod ==
    /\ Changing
    /\ \E p \in DOMAIN fs, m \in Modes :
        /\ fs' = [fs EXCEPT ![p].mode = m]
        /\ UNCHANGED <<file_hashes, alerts, pc, event, nEvents, report, handling>>

Next ==
    \/ MainStart
    \/ establish_baseline
    \/ MainQuit
    \/ on_modified
    \/ on_created
    \/ on_deleted
    \/ on_moved
    \/ WriteFile
    \/ RemoveFile
    \/ RenameFile
    \/ Chmod

Spec == Init /\ [][Next]_vars

(* ------------------ the alert log across launches ---------------------- *)

\* Events dispatched in one behaviour of SpecLog.
MaxLogged == 3

\* Readings of datetime.now(): the wall clock can stand still between two
\* alerts, and it can be set back.
Clock == {1, 2}

\* The directories of SpecLog: one content, one mtime.
LogDirectories ==
    {dir \in Directories :
        \A p \in DOMAIN dir : /\ dir[p].content = "hello"
                              /\ dir[p].mtime = "2024-01-01T10:00:00"}

\* The first launch, on a file_hashes.db that init_database has just created.
InitLog ==
    /\ fs \in LogDirectories
    /\ file_hashes \in [{} -> Rows]
    /\ alerts = << >>
    /\ pc = "start"
    /\ event = NoEvent
    /\ nEvents = 0
    /\ report = << >>
    /\ handling = Idle

\* main has ended and is launched again in the same working directory:
\* init_database finds file_hashes.db and its two tables (IF NOT EXISTS).
Relaunch ==
    /\ pc \in {"refused", "aborted", "exited"}
    /\ pc' = "start"
    /\ event' = NoEvent
    /\ report' = << >>
    /\ handling' = Idle
    /\ UNCHANGED <<fs, file_hashes, alerts, nEvents>>

\* The observer thread hands one event to its callback; log_alert reads
\* whatever the wall clock shows.
Logging ==
    /\ pc = "watching"
    /\ nEvents < MaxLogged
    /\ nEvents' = nEvents + 1
    /\ UNCHANGED <<pc, report, handling>>

logged_on_modified ==
    /\ Logging
    /\ \E src_path \in Paths, timestamp \in Clock, vanishes \in BOOLEAN :
          /\ vanishes => src_path \in DOMAIN fs
          /\ handle_file_event(src_path, "MODIFIED", timestamp, vanishes)

logged_on_created ==
    /\ Logging
    /\ \E src_path \in Paths, timestamp \in Clock, vanishes \in BOOLEAN :
          /\ vanishes => src_path \in DOMAIN fs
          /\ handle_file_event(src_path, "CREATED", timestamp, vanishes)

logged_on_deleted ==
    /\ Logging
    /\ \E src_path \in Paths, timestamp \in Clock :
          handle_file_event(src_path, "DELETED", timestamp, FALSE)

logged_on_moved ==
    /\ Logging
    /\ \E src_path \in Paths, dest_path \in Paths, timestamp \in Clock,
          vanishes \in BOOLEAN :
          /\ src_path # dest_path
          /\ vanishes => dest_path \in DOMAIN fs
          /\ handle_rename_event(src_path, dest_path, timestamp, vanishes)

NextLog ==
    \/ MainStart
    \/ establish_baseline
    \/ MainQuit
    \/ Relaunch
    \/ logged_on_modified
    \/ logged_on_created
    \/ logged_on_deleted
    \/ logged_on_moved

SpecLog == InitLog /\ [][NextLog]_vars

(* ------------- _handle_file_event, one write at a time ----------------- *)

\* Events dispatched in one behaviour of SpecSplit.
MaxHandled == 2

\* The directories of SpecSplit: one mtime, every file readable.
SplitDirectories ==
    {dir \in Directories :
        \A p \in DOMAIN dir : /\ dir[p].mtime = "2024-01-01T10:00:00"
                              /\ dir[p].mode = "644"}

\* The first launch, on a new file_hashes.db.
InitSplit ==
    /\ fs \in SplitDirectories
    /\ file_hashes \in [{} -> Rows]
    /\ alerts = << >>
    /\ pc = "start"
    /\ event = NoEvent
    /\ nEvents = 0
    /\ report = << >>
    /\ handling = Idle

\* store_file_hash is called where log_alert should be: the snapshot is
\* written first.
handle_file_event_alert_stores(file_path, event_type, inserted) ==
    LET new_hash == calculate_file_hash(fs, file_path)
        old_hash == get_file_hash(file_hashes, file_path)
        seen     == [kind |-> event_type, src_path |-> file_path,
                     dest_path |-> "", is_directory |-> FALSE,
                     had_row |-> file_path \in DOMAIN file_hashes]
    IN  IF Differs(old_hash, new_hash) /\ file_path \in DOMAIN fs
        THEN /\ file_hashes' = store_file_hash(file_hashes, file_path, new_hash,
                                   fs[file_path].mtime, fs[file_path].mode)
             /\ handling' = [file_path |-> file_path,
                              event_type |-> event_type, new_hash |-> new_hash]
             /\ event' = seen @@ [alerted |-> FALSE, stored |-> TRUE,
                                  raised |-> FALSE]
             /\ UNCHANGED alerts
        ELSE /\ event' = seen @@ [alerted |-> FALSE, stored |-> FALSE,
                                  raised |-> ~inserted]
             /\ UNCHANGED <<file_hashes, alerts, handling>>

\* _handle_file_event for CREATED and MODIFIED, lines 218-231: the hashes
\* are compared and log_alert is called. `inserted`: the INSERT went through
\* (if not, sqlite3 raises and the exception leaves the callback).
handle_file_event_alert(file_path, event_type, inserted) ==
    LET new_hash == calculate_file_hash(fs, file_path)
        old_hash == get_file_hash(file_hashes, file_path)
        seen     == [kind |-> event_type, src_path |-> file_path,
                     dest_path |-> "", is_directory |-> FALSE,
                     had_row |-> file_path \in DOMAIN file_hashes]
    IN  IF Differs(old_hash, new_hash)
        THEN IF inserted
             THEN /\ alerts' = log_alert(alerts, now, file_path, event_type,
                                         HashChanged(old_hash, new_hash))
                  /\ handling' = [file_path |-> file_path,
                                   event_type |-> event_type,
                                   new_hash |-> new_hash]
                  /\ event' = seen @@ [alerted |-> TRUE, stored |-> FALSE,
                                       raised |-> FALSE]
                  /\ UNCHANGED file_hashes
             ELSE /\ event' = seen @@ [alerted |-> FALSE, stored |-> FALSE,
                                       raised |-> TRUE]
                  /\ UNCHANGED <<file_hashes, alerts, handling>>
        ELSE /\ inserted
             /\ event' = seen @@ [alerted |-> FALSE, stored |-> FALSE,
                                  raised |-> FALSE]
             /\ UNCHANGED <<file_hashes, alerts, handling>>

\* The observer thread hands a CREATED or MODIFIED event to its callback,
\* which runs up to the return of log_alert.
AlertWrite ==
    /\ pc = "watching"
    /\ handling = Idle
    /\ nEvents < MaxHandled
    /\ nEvents' = nEvents + 1
    /\ \E src_path \in Paths, event_type \in {"CREATED", "MODIFIED"},
          inserted \in BOOLEAN :
          handle_file_event_alert(src_path, event_type, inserted)
    /\ UNCHANGED <<fs, pc, report>>

\* _handle_file_event, lines 233-240: os.stat(file_path), which raises if the
\* file is gone, then store_file_hash with the hash computed before the alert.
SnapshotWrite ==
    /\ pc = "watching"
    /\ handling # Idle
    /\ LET file_path == handling.file_path
       IN  IF file_path \in DOMAIN fs
           THEN /\ file_hashes' = store_file_hash(file_hashes, file_path,
                       handling.new_hash, fs[file_path].mtime,
                       fs[file_path].mode)
                /\ event' = [event EXCEPT !.stored = TRUE]
           ELSE /\ file_hashes' = file_hashes
                /\ event' = [event EXCEPT !.raised = TRUE]
    /\ handling' = Idle
    /\ UNCHANGED <<fs, alerts, pc, nEvents, report>>

\* The process is killed (or the machine stops) between the two writes of a
\* call, whose locals are lost. A kill at another point leaves no call
\* half-done.
Kill ==
    /\ pc = "watching"
    /\ handling # Idle
    /\ pc' = "killed"
    /\ handling' = Idle
    /\ UNCHANGED <<fs, file_hashes, alerts, event, nEvents, report>>

\* main is launched again after the kill, on the file_hashes.db as the kill
\* left it; `event` still tells what the last callback had done.
Restart ==
    /\ pc = "killed"
    /\ pc' = "start"
    /\ UNCHANGED <<fs, file_hashes, alerts, event, nEvents, report, handling>>

\* Between the steps of the monitor a file is written (FIMTester
\* create_random_file, modify_random_file) ...
Overwrite ==
    /\ pc = "watching"
    /\ nEvents < MaxHandled
    /\ \E p \in Paths, c \in Contents :
          fs' = [q \in DOMAIN fs \cup {p} |->
                    IF q = p
                    THEN [content |-> c, mtime |-> "2024-01-01T10:00:00",
                          mode |-> "644"]
                    ELSE fs[q]]
    /\ UNCHANGED <<file_hashes, alerts, pc, event, nEvents, report, handling>>

\* ... or removed (FIMTester.delete_random_file).
Unlink ==
    /\ pc = "watching"
    /\ nEvents < MaxHandled \/ handling # Idle
    /\ \E p \in DOMAIN fs : fs' = Without(fs, p)
    /\ UNCHANGED <<file_hashes, alerts, pc, event, nEvents, report, handling>>

NextSplit ==
    \/ MainStart
    \/ establish_baseline
    \/ AlertWrite
    \/ SnapshotWrite
    \/ Kill
    \/ Restart
    \/ Overwrite
    \/ Unlink

SpecSplit == InitSplit /\ [][NextSplit]_vars

(* ------------------ files removed and created again -------------------- *)

\* A file that was removed is created again, with any content and a later
\* mtime (FIMTester.create_random_file): a file that carries this mtime has
\* been removed and created again since the launch.
Recreate ==
    /\ pc = "watching"
    /\ nEvents < MaxHandled
    /\ \E p \in Paths \ DOMAIN fs, c \in Contents :
          fs' = [q \in DOMAIN fs \cup {p} |->
                    IF q = p
                    THEN [content |-> c, mtime |-> "2024-01-02T10:00:00",
                          mode |-> "644"]
                    ELSE fs[q]]
    /\ UNCHANGED <<file_hashes, alerts, pc, event, nEvents, report, handling>>

\* The observer thread hands one event to its callback.
Delivering ==
    /\ pc = "watching"
    /\ handling = Idle
    /\ nEvents < MaxHandled
    /\ nEvents' = nEvents + 1
    /\ UNCHANGED <<pc, report, handling>>

delivered_on_deleted ==
    /\ Delivering
    /\ \E src_path \in Paths :
          handle_file_event(src_path, "DELETED", now, FALSE)

delivered_on_created ==
    /\ Delivering
    /\ \E src_path \in Paths, vanishes \in BOOLEAN :
          /\ vanishes => src_path \in DOMAIN fs
          /\ handle_file_event(src_path, "CREATED", now, vanishes)

NextRecreate ==
    \/ MainStart
    \/ establish_baseline
    \/ Unlink
    \/ Recreate
    \/ delivered_on_deleted
    \/ delivered_on_created

\* The first launch on a new file_hashes.db; files are removed and created
\* again while the observer runs.
SpecRecreate == InitSplit /\ [][NextRecreate]_vars

(* ------------------ files the baseline had to skip --------------------- *)

\* The first launch, on a new file_hashes.db, over any directory.
InitSkipped ==
    /\ fs \in Directories
    /\ file_hashes \in [{} -> Rows]
    /\ alerts = << >>
    /\ pc = "start"
    /\ event = NoEvent
    /\ nEvents = 0
    /\ report = << >>
    /\ handling = Idle

\* Nothing is written into the directory while the monitor runs, only modes
\* change: a file that is there without a row is one the baseline skipped.
NextSkipped ==
    \/ MainStart
    \/ establish_baseline
    \/ MainQuit
    \/ on_modified
    \/ on_created
    \/ Chmod

SpecSkipped == InitSkipped /\ [][NextSkipped]_vars

(* -------------------- store_file_hash on its own ----------------------- *)

\* A Database on a new file_hashes.db, written by nothing but store_file_hash.
InitStore ==
    /\ fs \in [{} -> Files]
    /\ file_hashes \in [{} -> Rows]
    /\ alerts = << >>
    /\ pc = "watching"
    /\ event = NoEvent
    /\ nEvents = 0
    /\ report = << >>
    /\ handling = Idle

\* One call of Database.store_file_hash, with any arguments.
StoreCall ==
    /\ \E file_path \in Paths, row \in Rows :
          file_hashes' = store_file_hash(file_hashes, file_path, row.hash,
                                         row.last_modified, row.permissions)
    /\ UNCHANGED <<fs, alerts, pc, event, nEvents, report, handling>>

NextStore == StoreCall

SpecStore == InitStore /\ [][NextStore]_vars

(* ---------------------------- properties ------------------------------- *)

\* This step dispatched an event that was not flagged is_directory.
Handled(kinds) ==
    /\ nEvents' = nEvents + 1
    /\ event'.kind \in kinds
    /\ ~event'.is_directory

Last(table) == table[Len(table)]

\* C1: a CREATED or MODIFIED event on a readable path whose digest differs
\* from the recorded hash (or that has no row) appends exactly one alert of
\* the event's kind whose details name the prior and the new hash, and, the
\* file being still there when its metadata is read, get_file_hash(path) is
\* the new hash afterwards.
C1_ChangeAlertsAndUpdates ==
    [][ \A p \in Paths :
          ( /\ Handled({"CREATED", "MODIFIED"})
            /\ event'.src_path = p
            /\ p \in DOMAIN fs /\ fs[p].mode # "000"
            /\ (p \in DOMAIN file_hashes =>
                    file_hashes[p].hash # sha256(fs[p].content)) )
          => LET old == IF p \in DOMAIN file_hashes
                        THEN file_hashes[p].hash ELSE "None"
                 new == sha256(fs[p].content)
             IN  /\ Len(alerts') = Len(alerts) + 1
                 /\ SubSeq(alerts', 1, Len(alerts)) = alerts
                 /\ Last(alerts').file_path = p
                 /\ Last(alerts').event_type = event'.kind
                 /\ Last(alerts').details =
                        "Hash changed: " \o old \o " -> " \o new
                 /\ p \in DOMAIN fs' => get_file_hash(file_hashes', p) = new
      ]_vars

\* A MODIFIED event replaced a recorded digest by the digest of the new content.
C1_Witness ==
    /\ event.kind = "MODIFIED" /\ event.had_row /\ event.alerted /\ event.stored
    /\ Len(alerts) = 1
    /\ \E c, d \in Contents :
          /\ c # d
          /\ alerts[1].details =
                "Hash changed: " \o sha256(c) \o " -> " \o sha256(d)
          /\ get_file_hash(file_hashes, event.src_path) = sha256(d)

\* C2: a CREATED or MODIFIED event whose freshly computed digest equals the
\* recorded hash appends no alert and leaves the tables, so the row's hash,
\* last_modified and permissions, as they were.
C2_SameHashIsNoOp ==
    [][ \A p \in Paths :
          ( /\ Handled({"CREATED", "MODIFIED"})
            /\ event'.src_path = p
            /\ p \in DOMAIN fs /\ fs[p].mode # "000"
            /\ p \in DOMAIN file_hashes
            /\ file_hashes[p].hash = sha256(fs[p].content) )
          => /\ alerts' = alerts
             /\ file_hashes' = file_hashes
      ]_vars

\* A MODIFIED event on a touched file (new mtime, same content) was handled
\* without an alert, and the row still holds the old last_modified.
C2_Witness ==
    /\ event.kind = "MODIFIED" /\ ~event.is_directory /\ ~event.alerted
    /\ alerts = << >>
    /\ LET p == event.src_path
       IN  /\ p \in DOMAIN fs /\ p \in DOMAIN file_hashes
           /\ fs[p].mode # "000"
           /\ file_hashes[p].hash = sha256(fs[p].content)
           /\ file_hashes[p].last_modified # fs[p].mtime

\* C3: a CREATED event on a path that has no row in file_hashes always
\* appends an alert, whether the hash computation answers a digest or fails.
C3_CreatedUnknownPathAlerts ==
    [][ \A p \in Paths :
          ( /\ Handled({"CREATED"})
            /\ event'.src_path = p
            /\ p \notin DOMAIN file_hashes )
          => /\ Len(alerts') = Len(alerts) + 1
             /\ Last(alerts').file_path = p
             /\ Last(alerts').event_type = "CREATED"
      ]_vars

\* C4: when the hash computation fails during a CREATED or MODIFIED event
\* (the file is absent or cannot be opened), an alert is still appended, with
\* the failure value as the new hash, whatever is recorded for the path.
C4_HashFailureAlerts ==
    [][ \A p \in Paths :
          ( /\ Handled({"CREATED", "MODIFIED"})
            /\ event'.src_path = p
            /\ (p \notin DOMAIN fs \/ fs[p].mode = "000") )
          => /\ Len(alerts') = Len(alerts) + 1
             /\ Last(alerts').file_path = p
             /\ Last(alerts').details =
                    "Hash changed: " \o get_file_hash(file_hashes, p)
                        \o " -> " \o "None"
      ]_vars

\* C5: every DELETED event appends exactly one alert, of kind DELETED with
\* details "File deleted", whether or not the path has a row, and leaves
\* table file_hashes as it was.
C5_DeletedAlertsAndKeepsRows ==
    [][ \A p \in Paths :
          (Handled({"DELETED"}) /\ event'.src_path = p)
          => /\ Len(alerts') = Len(alerts) + 1
             /\ alerts' = Append(alerts,
                    [timestamp |-> Last(alerts').timestamp, file_path |-> p,
                     event_type |-> "DELETED", details |-> "File deleted"])
             /\ file_hashes' = file_hashes
      ]_vars

\* A DELETED event for a removed file that had a row: the alert is logged and
\* the row is still there with its digest.
C5_Witness ==
    /\ event.kind = "DELETED" /\ event.had_row
    /\ Len(alerts) = 1 /\ alerts[1].event_type = "DELETED"
    /\ alerts[1].details = "File deleted"
    /\ event.src_path \notin DOMAIN fs
    /\ event.src_path \in DOMAIN file_hashes
    /\ file_hashes[event.src_path].hash \in Digests

\* C6: every RENAMED(old, new) event appends exactly one alert (kind RENAMED,
\* path new, details naming old) whatever the hashes are; and if new is
\* readable while the event is handled, get_file_hash(new) is afterwards the
\* digest of new's content, whatever was recorded for it.
C6_RenamedAlertsAndRefreshes ==
    [][ \A old, new \in Paths :
          ( /\ Handled({"RENAMED"})
            /\ event'.src_path = old /\ event'.dest_path = new )
          => /\ Len(alerts') = Len(alerts) + 1
             /\ alerts' = Append(alerts,
                    [timestamp |-> Last(alerts').timestamp, file_path |-> new,
                     event_type |-> "RENAMED",
                     details |-> "Renamed from: " \o old])
             /\ (new \in DOMAIN fs /\ fs[new].mode # "000" /\ new \in DOMAIN fs')
                    => get_file_hash(file_hashes', new) = sha256(fs[new].content)
      ]_vars

\* A RENAMED event onto a readable destination that had a row: the row now
\* holds the destination's digest and mtime.
C6_Witness ==
    /\ event.kind = "RENAMED" /\ event.had_row /\ event.stored
    /\ Len(alerts) = 1 /\ alerts[1].event_type = "RENAMED"
    /\ alerts[1].file_path = event.dest_path
    /\ event.dest_path \in DOMAIN fs
    /\ nEvents = MaxEvents
    /\ get_file_hash(file_hashes, event.dest_path)
            = sha256(fs[event.dest_path].content)
    /\ file_hashes[event.dest_path].last_modified = fs[event.dest_path].mtime

\* The row of file_path in the table, "no row" when it has none.
RowOf(table, file_path) ==
    IF file_path \in DOMAIN table THEN <<table[file_path]>> ELSE << >>

\* C7: a RENAMED(old, new) event changes at most the row keyed on new: the
\* row keyed on old and every other row stay as they were, and when new does
\* not exist while the event is handled no row changes at all.
C7_RenamedTouchesOnlyDestination ==
    [][ \A old, new \in Paths :
          ( /\ Handled({"RENAMED"})
            /\ event'.src_path = old /\ event'.dest_path = new )
          => /\ \A q \in Paths \ {new} :
                    RowOf(file_hashes', q) = RowOf(file_hashes, q)
             /\ new \notin DOMAIN fs => file_hashes' = file_hashes
      ]_vars

\* A RENAMED event whose source had a row and whose destination got one: the
\* source's row is still in the table beside the destination's.
C7_Witness ==
    /\ event.kind = "RENAMED" /\ event.stored /\ ~event.had_row
    /\ event.src_path \in DOMAIN file_hashes
    /\ event.dest_path \in DOMAIN file_hashes
    /\ event.src_path \notin DOMAIN fs
    /\ file_hashes[event.src_path].hash = file_hashes[event.dest_path].hash

\* C8: a failure while one event is processed stays within that event: no
\* exception leaves the callback.
C8_NoExceptionLeavesHandler ==
    event.kind # "NONE" => ~event.raised

\* C9: each dispatched event appends no alert or exactly one alert; a DELETED
\* or RENAMED event appends exactly one.
C9_AtMostOneAlertPerEvent ==
    [][ nEvents' = nEvents + 1
        => /\ \/ alerts' = alerts
              \/ /\ Len(alerts') = Len(alerts) + 1
                 /\ SubSeq(alerts', 1, Len(alerts)) = alerts
           /\ Handled({"DELETED", "RENAMED"}) => Len(alerts') = Len(alerts) + 1
      ]_vars

\* Both outcomes happen for MODIFIED events: here one that appended an alert.
C9_Witness ==
    /\ nEvents = 1 /\ Len(alerts) = 1
    /\ event.kind \in {"CREATED", "MODIFIED"} /\ event.alerted

\* C10: get_file_hash answers None only for a path that has no row: a path
\* snapshotted with a failed hash can be told from one never snapshotted.
C10_NoneMeansNoRow ==
    \A p \in Paths :
        get_file_hash(file_hashes, p) = None => p \notin DOMAIN file_hashes

\* C11: the alert log is append-only: every step (a baseline run of a later
\* launch, the handling of a CREATED, MODIFIED, DELETED or RENAMED event, the
\* read of the report) leaves the alerts already written in place and
\* unchanged, so the log only grows at its end.
C11_AlertsAppendOnly ==
    [][ /\ Len(alerts') >= Len(alerts)
        /\ SubSeq(alerts', 1, Len(alerts)) = alerts
      ]_vars

\* A later launch has run its baseline and read its report on a log that
\* holds the alerts of the earlier launch.
C11_Witness ==
    /\ pc = "exited" /\ event = NoEvent
    /\ Len(alerts) >= 2
    /\ alerts[1].file_path = alerts[2].file_path
    /\ Len(report) = Len(alerts)
    /\ \E p \in DOMAIN file_hashes : file_hashes[p].hash # None

\* The timestamps of the rows never decrease from one row to the next.
NonDecreasing(rows) ==
    \A i, j \in DOMAIN rows : i < j => rows[i].timestamp <= rows[j].timestamp

\* The two sequences hold the same rows, each as many times.
SameRows(rows, table) ==
    /\ Len(rows) = Len(table)
    /\ \A i \in DOMAIN table :
          Cardinality({j \in DOMAIN rows : rows[j] = table[i]})
              = Cardinality({j \in DOMAIN table : table[j] = table[i]})

\* C12: what get_all_alerts returned to main holds every alert of the log,
\* in non-decreasing timestamp order, whatever the order of insertion (the
\* clock may have been set back between two alerts).
C12_ReportInTimestampOrder ==
    pc = "exited" => /\ SameRows(report, alerts)
                     /\ NonDecreasing(report)

\* The clock was set back between the alerts: the report reorders the log.
C12_Witness ==
    /\ pc = "exited"
    /\ Len(alerts) = 3
    /\ alerts[1].timestamp > alerts[2].timestamp
    /\ alerts[2].timestamp < alerts[3].timestamp
    /\ report = <<alerts[2], alerts[1], alerts[3]>>

C14_BaselineSnapshotsHashedFiles ==
    [][ (pc = "baseline" /\ pc' = "watching")
        => \A p \in Paths :
              IF p \in DOMAIN fs' /\ fs[p].mode # "000"
              THEN RowOf(file_hashes', p) =
                     << [hash |-> sha256(fs[p].content),
                         last_modified |-> fs[p].mtime,
                         permissions |-> fs[p].mode] >>
              ELSE RowOf(file_hashes', p) = RowOf(file_hashes, p)
      ]_vars

\* The baseline has returned on a directory of one readable file, whose row
\* holds its digest, and one file of mode 000, which has no row.
C14_Witness ==
    /\ pc = "watching" /\ nEvents = 0
    /\ \E p, q \in DOMAIN fs :
          /\ fs[p].mode # "000" /\ fs[q].mode = "000"
          /\ RowOf(file_hashes, p) =
                << [hash |-> sha256(fs[p].content),
                    last_modified |-> fs[p].mtime,
                    permissions |-> fs[p].mode] >>
          /\ q \notin DOMAIN file_hashes

\* C15: no step removes a row of file_hashes: the set of paths that have a
\* row never shrinks, whatever baseline runs and events follow each other;
\* a baseline run leaves the row of a path that is no longer in the
\* directory exactly as it was.
C15_RowsNeverRemoved ==
    [][ /\ DOMAIN file_hashes \subseteq DOMAIN file_hashes'
        /\ pc = "baseline"
            => \A p \in DOMAIN file_hashes :
                  p \notin DOMAIN fs => file_hashes'[p] = file_hashes[p]
      ]_vars

\* A later launch has run its baseline after a file was removed: the row of
\* the removed file is still there beside the row of the file that stayed.
C15_Witness ==
    /\ pc = "watching" /\ event = NoEvent /\ nEvents >= 1
    /\ \E p \in DOMAIN file_hashes, q \in DOMAIN file_hashes :
          /\ p \notin DOMAIN fs /\ file_hashes[p].hash # None
          /\ q \in DOMAIN fs
          /\ \E i \in DOMAIN alerts : alerts[i].file_path = p

\* C16: no callback runs (no event is dispatched, no alert is written)
\* before establish_baseline has returned, and from its return to the first
\* dispatch nothing writes file_hashes: the first event is handled on the
\* rows the baseline left.
C16_BaselineBeforeEvents ==
    [][ /\ (nEvents' # nEvents \/ event' # event \/ alerts' # alerts)
            => pc = "watching"
        /\ (pc = "watching" /\ nEvents = 0 /\ nEvents' = 0)
            => file_hashes' = file_hashes
      ]_vars

\* The first event, a CREATED event on a file the baseline had hashed, found
\* the baseline's row and the same digest.
C16_Witness ==
    /\ pc = "watching" /\ nEvents = 1
    /\ event.kind = "CREATED" /\ ~event.is_directory
    /\ event.had_row /\ ~event.alerted
    /\ event.src_path \in DOMAIN fs
    /\ get_file_hash(file_hashes, event.src_path)
            = sha256(fs[event.src_path].content)

\* C17: store_file_hash is a full-replace upsert keyed on the path. On every
\* table the program reaches and for every call: the table then has exactly
\* one row for the path, holding the call's hash, last_modified and
\* permissions; the rows of the other paths are as before; the same call
\* again changes nothing; and of two calls for one path the last one wins.
C17_StoreIsUpsert ==
    \A p \in Paths, row \in Rows :
        LET once == store_file_hash(file_hashes, p, row.hash,
                                    row.last_modified, row.permissions)
        IN  /\ DOMAIN once = DOMAIN file_hashes \cup {p}
            /\ once[p] = row
            /\ \A q \in Paths \ {p} : RowOf(once, q) = RowOf(file_hashes, q)
            /\ store_file_hash(once, p, row.hash, row.last_modified,
                               row.permissions) = once
            /\ \A last \in Rows :
                  store_file_hash(once, p, last.hash, last.last_modified,
                                  last.permissions)
                    = store_file_hash(file_hashes, p, last.hash,
                                      last.last_modified, last.permissions)

\* A sequence of calls has left one row per path; the two rows differ in
\* every column and one of them holds a NULL hash.
C17_Witness ==
    /\ DOMAIN file_hashes = Paths
    /\ \E p, q \in Paths :
          /\ file_hashes[p].hash = None /\ file_hashes[q].hash # None
          /\ file_hashes[p].last_modified # file_hashes[q].last_modified
          /\ file_hashes[p].permissions # file_hashes[q].permissions

\* C18: when the path typed does not exist main returns at once: that step
\* walks nothing and writes nothing (no row, no alert, no file touched), and
\* after it nothing runs: no baseline, no observer, no event.
C18_InvalidRootIsFatal ==
    [][ /\ (pc = "start" /\ pc' \notin {"start", "baseline"})
            => /\ pc' = "refused"
               /\ UNCHANGED <<fs, file_hashes, alerts, event, nEvents, report>>
        /\ pc = "refused" => UNCHANGED vars
      ]_vars

\* main has returned on a path that does not exist: nothing was hashed,
\* nothing logged, no event dispatched.
C18_Witness ==
    /\ pc = "refused"
    /\ alerts = << >> /\ nEvents = 0 /\ event = NoEvent
    /\ \E p \in DOMAIN fs : Readable(fs, p) /\ p \notin DOMAIN file_hashes

\* C19: a file whose hash failed at baseline has no row when the baseline
\* returns, and an event on it later is treated as CREATED: the alert that a
\* CREATED or a MODIFIED event on such a file appends is of kind CREATED.
C19_SkippedFileEventIsCreated ==
    [][ \A p \in Paths :
          /\ (pc = "baseline" /\ pc' = "watching"
                /\ p \in DOMAIN fs' /\ fs[p].mode = "000")
              => p \notin DOMAIN file_hashes'
          /\ ( /\ Handled({"CREATED", "MODIFIED"})
               /\ event'.src_path = p
               /\ p \in DOMAIN fs /\ p \notin DOMAIN file_hashes
               /\ Len(alerts') = Len(alerts) + 1 )
              => Last(alerts').event_type = "CREATED"
      ]_vars

\* The last event, on file_path, was alerted and its snapshot write did not
\* follow: the callback raised at os.stat, or the process was killed.
StoppedBetween(file_path) ==
    /\ handling = Idle
    /\ event.kind \in {"CREATED", "MODIFIED"}
    /\ event.src_path = file_path
    /\ event.alerted /\ ~event.stored

\* This step hands file_path's next CREATED or MODIFIED event to the callback
\* and the file hashes to new_hash.
NextEventOn(file_path, new_hash) ==
    /\ nEvents' = nEvents + 1
    /\ event'.src_path = file_path
    /\ calculate_file_hash(fs, file_path) = new_hash

\* This step appends a second alert for the transition of the last alert,
\* unless its INSERT fails.
SecondAlert(file_path) ==
    \/ /\ alerts' = Append(alerts, Last(alerts'))
       /\ Last(alerts').file_path = file_path
       /\ Last(alerts').details = Last(alerts).details
    \/ event'.raised /\ ~event'.alerted

\* While the observer runs, a step that changes a hash in file_hashes changes
\* one row, and the alert naming that change is in the log before the step;
\* a call that ends after its alert without its snapshot write leaves
\* file_hashes as it was.
AlertFirst ==
    /\ (pc = "watching" /\ pc' = "watching" /\ file_hashes' # file_hashes)
         => \E p \in Paths :
               /\ \A q \in Paths \ {p} :
                     RowOf(file_hashes', q) = RowOf(file_hashes, q)
               /\ \E i \in DOMAIN alerts :
                     /\ alerts[i].file_path = p
                     /\ alerts[i].event_type \in {"CREATED", "MODIFIED"}
                     /\ alerts[i].details =
                           HashChanged(get_file_hash(file_hashes, p),
                                       get_file_hash(file_hashes', p))
    /\ (handling # Idle /\ handling' = Idle /\ ~event'.stored)
         => file_hashes' = file_hashes

\* C20 as stated: the alert is written before the snapshot in every state
\* (kill, failed INSERT, exception between the writes); and whenever a call
\* stopped between its two writes, the next event on the same content finds
\* the snapshot with its old hash and appends a second alert for the same
\* transition.
C20_Stated ==
    [][ /\ AlertFirst
        /\ nEvents' = nEvents + 1
            => \A p \in Paths, old, new \in Digests \cup {None} :
                  ( /\ StoppedBetween(p)
                    /\ Last(alerts).details = HashChanged(old, new)
                    /\ NextEventOn(p, new) )
                  => /\ get_file_hash(file_hashes, p) = old
                     /\ SecondAlert(p)
      ]_vars

\* C20, amended: the alert is written before the snapshot in every state;
\* and when a call stopped between its two writes, the next event on the same
\* content appends a second alert for the same transition if the snapshot
\* still holds the old hash then (a baseline run in between, as after a kill
\* and a new launch, has replaced it).
C20_AlertBeforeSnapshot ==
    [][ /\ AlertFirst
        /\ nEvents' = nEvents + 1
            => \A p \in Paths, old, new \in Digests \cup {None} :
                  ( /\ StoppedBetween(p)
                    /\ Last(alerts).details = HashChanged(old, new)
                    /\ NextEventOn(p, new)
                    /\ get_file_hash(file_hashes, p) = old )
                  => SecondAlert(p)
      ]_vars

\* A call raised at os.stat after its alert (the file had been removed); the
\* file was written again with the same content, and the next event appended
\* a second alert for the same transition; its snapshot write then followed.
C20_Witness ==
    /\ pc = "watching" /\ nEvents = 2 /\ handling = Idle
    /\ Len(alerts) = 2
    /\ alerts[1].file_path = alerts[2].file_path
    /\ alerts[1].details = alerts[2].details
    /\ alerts[1].timestamp < alerts[2].timestamp
    /\ event.alerted /\ event.stored /\ event.had_row
    /\ \E c \in Contents :
          get_file_hash(file_hashes, event.src_path) = sha256(c)

\* The last event dispatched was a DELETED event on file_path, and its alert
\* is the last of the log.
JustDeleted(file_path) ==
    /\ event.kind = "DELETED" /\ ~event.is_directory
    /\ event.src_path = file_path
    /\ alerts # << >>
    /\ Last(alerts).event_type = "DELETED"
    /\ Last(alerts).file_path = file_path

\* C21: a DELETED event appends its alert and keeps the row of the path; so
\* when the file is there again with the content whose digest the row holds
\* and its CREATED event follows the DELETED one, the CREATED event appends
\* no alert and writes no row: the log shows the deletion and nothing more.
C21_RecreatedIdenticalIsSilent ==
    [][ \A p \in Paths :
          /\ (Handled({"DELETED"}) /\ event'.src_path = p)
              => /\ RowOf(file_hashes', p) = RowOf(file_hashes, p)
                 /\ JustDeleted(p)'
          /\ ( /\ Handled({"CREATED"}) /\ event'.src_path = p
               /\ JustDeleted(p)
               /\ p \in DOMAIN file_hashes
               /\ file_hashes[p].hash = calculate_file_hash(fs, p) )
              => /\ alerts' = alerts
                 /\ file_hashes' = file_hashes
      ]_vars

\* A file the baseline had hashed was removed and created again with the
\* same content (the row holds the first mtime, the file the later one): its
\* DELETED event was alerted, and the CREATED event that followed left the
\* log at the DELETED alert.
C21_Witness ==
    /\ nEvents >= 2
    /\ event.src_path \in DOMAIN fs /\ event.src_path \in DOMAIN file_hashes
    /\ fs[event.src_path].mtime = "2024-01-02T10:00:00"
    /\ file_hashes[event.src_path].last_modified = "2024-01-01T10:00:00"
    /\ event.kind = "CREATED" /\ ~event.is_directory
    /\ event.had_row /\ ~event.alerted /\ ~event.raised
    /\ alerts # << >>
    /\ Last(alerts).event_type = "DELETED"
    /\ Last(alerts).file_path = event.src_path
    /\ event.src_path \in DOMAIN fs
    /\ get_file_hash(file_hashes, event.src_path)
            = sha256(fs[event.src_path].content)

\* C22: a RENAMED event whose destination is there but cannot be opened
\* still writes the destination's row, with an absent hash and the file's
\* mtime and mode: whatever hash the row held is gone, and get_file_hash
\* answers for the path what it answers when the row is not there at all.
C22_UnhashableDestinationStored ==
    [][ \A old, new \in Paths :
          ( /\ Handled({"RENAMED"})
            /\ event'.src_path = old /\ event'.dest_path = new
            /\ new \in DOMAIN fs /\ fs[new].mode = "000"
            /\ new \in DOMAIN fs' )
          => /\ RowOf(file_hashes', new) =
                    << [hash |-> None, last_modified |-> fs[new].mtime,
                        permissions |-> fs[new].mode] >>
             /\ get_file_hash(file_hashes', new)
                    = get_file_hash(Without(file_hashes', new), new)
      ]_vars

\* A RENAMED event onto an unreadable destination whose row held a digest:
\* the row is still there and its hash is absent.
C22_Witness ==
    /\ event.kind = "RENAMED" /\ ~event.is_directory
    /\ event.had_row /\ event.stored /\ ~event.raised
    /\ nEvents = 1
    /\ event.dest_path \in DOMAIN fs /\ fs[event.dest_path].mode = "000"
    /\ event.dest_path \in DOMAIN file_hashes
    /\ file_hashes[event.dest_path].hash = None
    /\ file_hashes[event.dest_path].permissions = "000"

\* C23: when files disappear while the baseline walks the directory, only
\* those files are skipped: establish_baseline returns normally, the observer
\* is started, and every file that is still there and can be opened has its
\* row with the digest of its content.
C23_VanishedFileOnlySkipped ==
    [][ (pc = "baseline" /\ pc' # "baseline" /\ fs' # fs)
        => /\ pc' = "watching"
           /\ \A p \in DOMAIN fs' :
                 fs'[p].mode # "000"
                 => RowOf(file_hashes', p) =
                       << [hash |-> sha256(fs'[p].content),
                           last_modified |-> fs'[p].mtime,
                           permissions |-> fs'[p].mode] >>
      ]_vars

\* C24: an event flagged as a directory event, whichever of the four
\* callbacks receives it, appends no alert and writes no row (and touches no
\* file): the tables after it are the tables before it.
C24_DirectoryEventsDropped ==
    [][ (nEvents' = nEvents + 1 /\ event'.is_directory)
        => /\ event'.kind \in {"CREATED", "MODIFIED", "DELETED", "RENAMED"}
           /\ alerts' = alerts
           /\ file_hashes' = file_hashes
           /\ fs' = fs
      ]_vars

\* A RENAMED event flagged is_directory was dispatched on paths for which a
\* file event would have logged an alert and written the destination's row.
C24_Witness ==
    /\ nEvents = 1
    /\ event.kind = "RENAMED" /\ event.is_directory
    /\ alerts = << >>
    /\ event.dest_path \in DOMAIN fs
    /\ Readable(fs, event.dest_path)
    /\ event.dest_path \notin DOMAIN file_hashes

====
